---- MODULE Spec2Model ----
(***************************************************************************)
(* PureTrace: the Result algebra (Success / Failure with trace lists),     *)
(* the message validation of addTraces / addErrors, and ResultAsync.       *)
(*                                                                         *)
(* Sources: src/src/pure_message.ts (lines 149-399),                       *)
(*          src/src/pure_result.ts (lines 1-709),                          *)
(*          src/src/pure_result_async.ts (lines 1-293).                    *)
(***************************************************************************)
EXTENDS Integers, Sequences, FiniteSets, TLC

(***************************************************************************)
(* JavaScript values, as far as the message schema tells them apart.       *)
(* A value is a tagged record; an object carries a function from its own   *)
(* keys to values.  "date" stands for the values that structuredClone      *)
(* copies but z.json() rejects (Date, Map, ...); undefined is such a value *)
(* too.                                                                    *)
(***************************************************************************)
Undefined == [t |-> "undefined"]

Str(s) == [t |-> "string", v |-> s]

Num(n) == [t |-> "number", v |-> n]

DateValue == [t |-> "date"]

Obj(f) == [t |-> "object", f |-> f]

\* o[k] of JavaScript: undefined when the key is absent or o is no object.
Get(o, k) == IF o.t = "object" /\ k \in DOMAIN o.f THEN o.f[k] ELSE Undefined

(***************************************************************************)
(* Zod schemas of pure_message.ts: each operator is safeParse(v).success.  *)
(***************************************************************************)
zString(v) == v.t = "string"

zStringMin1(v) == v.t = "string" /\ v.v # ""

\* z.json(): string | number | boolean | null | json[] | record<string, json>;
\* a record checks the value of every own key, an undefined one included.
RECURSIVE zJson(_)
zJson(v) ==
    CASE v.t = "string" -> TRUE
      [] v.t = "number" -> TRUE
      [] v.t = "object" -> \A k \in DOMAIN v.f : zJson(v.f[k])
      [] OTHER -> FALSE

\* schema.optional(): undefined (or an absent key) passes.
zJsonOptional(v) == v = Undefined \/ zJson(v)

zStringMin1Optional(v) == v = Undefined \/ zStringMin1(v)

\* The strings of the model that match /^[a-z]{2}(-[A-Z]{2})?$/.
MatchingLocales == {"fr", "en-US"}

localeSchema(v) == zString(v) /\ v.v \in MatchingLocales

localizedMessageSchema(v) ==
    /\ v.t = "object"
    /\ (Get(v, "locale") = Undefined \/ localeSchema(Get(v, "locale")))
    /\ zStringMin1(Get(v, "message"))

localizedMessageOptional(v) == v = Undefined \/ localizedMessageSchema(v)

messageSchema(c) ==
    /\ c.t = "object"
    /\ zString(Get(c, "kind"))
    /\ zString(Get(c, "type"))
    /\ zString(Get(c, "code"))
    /\ zJsonOptional(Get(c, "data"))
    /\ zStringMin1Optional(Get(c, "issuer"))
    /\ localizedMessageOptional(Get(c, "localizedMessage"))

\* The properties of the candidate that messageSchema rejects.
InvalidKeys(c) ==
    {k \in {"kind", "type", "code"} : ~zString(Get(c, k))}
        \cup {k \in {"data"} : ~zJsonOptional(Get(c, k))}
        \cup {k \in {"issuer"} : ~zStringMin1Optional(Get(c, k))}
        \cup {k \in {"localizedMessage"} :
                ~localizedMessageOptional(Get(c, k))}

\* z.treeifyError(zodParseResult.error): a JSON tree of error strings, one
\* entry per rejected property (or one at the root for a non-object).
treeifyError(c) ==
    IF c.t # "object"
    THEN Obj([errors |-> Str("expected object")])
    ELSE Obj([k \in InvalidKeys(c) |-> Str("invalid input")])

\* generateError: { kind: 'error', ...parameters }.
generateError(parameters) == Obj(parameters @@ [kind |-> Str("error")])

(***************************************************************************)
(* Results (pure_result.ts).  A Result object lives in the heap under its  *)
(* identity (its index): addTraces and addErrors change the object in      *)
(* place, and a combinator that returns `this` returns the same identity.  *)
(***************************************************************************)
VARIABLES
    heap,       \* the Result objects created so far, by identity
    last,       \* what the last operation was given, called and returned
    passed,     \* per object: list lengths at creation, items passed since
    steps,      \* operations performed so far
    asyncs,     \* the ResultAsync objects created so far, by identity
    runs,       \* per ResultAsync: how many times its computation was run
    started,    \* per ResultAsync: resolve() / then() calls made on it from
                \* outside (by the program or by a promise adopting it)
    pending,    \* the resolutions started so far, settled ones included
    held        \* the arrays getTraces() / getErrors() returned to the caller

vars == <<heap, last, passed, steps, asyncs, runs, started, pending, held>>

asyncVars == <<asyncs, runs, started, pending>>

\* A faulty invalidTraceMessage: the substitute keeps the diagnostic and
\* loses the candidate.
invalidTraceMessageWithoutCandidate(trace) ==
    generateError([type |-> Str("pureTraceInternalError"),
                   code |-> Str("invalidTraceMessage"),
                   data |-> Obj([zodError |-> treeifyError(trace)])])

\* The substitute addTraces stores for a candidate that fails validation.
invalidTraceMessage(trace) ==
    generateError([type |-> Str("pureTraceInternalError"),
                   code |-> Str("invalidTraceMessage"),
                   data |-> Obj([pureMessage |-> trace,
                                 zodError |-> treeifyError(trace)])])

\* The substitute addErrors stores for a candidate that fails validation.
invalidError(error) ==
    generateError([type |-> Str("pureTraceInternalError"),
                   code |-> Str("invalidError"),
                   data |-> Obj([pureMessage |-> error,
                                 zodError |-> treeifyError(error)])])

\* A faulty pushTraces: unshift instead of push.
RECURSIVE pushTracesFront(_, _)
pushTracesFront(traces, items) ==
    IF items = <<>>
    THEN traces
    ELSE pushTracesFront(
            <<IF messageSchema(Head(items))
              THEN Head(items)
              ELSE invalidTraceMessage(Head(items))>> \o traces,
            Tail(items))

\* The loop of addTraces over its arguments, on the private list.
RECURSIVE pushTraces(_, _)
pushTraces(traces, items) ==
    IF items = <<>>
    THEN traces
    ELSE pushTraces(
            Append(traces,
                   IF messageSchema(Head(items))
                   THEN Head(items)
                   ELSE invalidTraceMessage(Head(items))),
            Tail(items))

\* A faulty pushErrors: a candidate that fails validation is skipped.
RECURSIVE pushErrorsDroppingInvalid(_, _)
pushErrorsDroppingInvalid(errors, items) ==
    IF items = <<>>
    THEN errors
    ELSE pushErrorsDroppingInvalid(
            IF messageSchema(Head(items))
            THEN Append(errors, Head(items))
            ELSE errors,
            Tail(items))

\* The loop of addErrors over its argument, on the private list.
RECURSIVE pushErrors(_, _)
pushErrors(errors, items) ==
    IF items = <<>>
    THEN errors
    ELSE pushErrors(
            Append(errors,
                   IF messageSchema(Head(items))
                   THEN Head(items)
                   ELSE invalidError(Head(items))),
            Tail(items))

\* structuredClone of a list of messages: a deep copy, equal in value.
structuredClone(list) == [i \in 1..Len(list) |-> list[i]]

getTraces(o) == structuredClone(o.traces)

getErrors(o) == structuredClone(o.errors)

\* r.addTraces(...items) on the object r of heap h: the heap afterwards.
addTraces(h, r, items) == [h EXCEPT ![r].traces = pushTraces(@, items)]

\* r.addErrors(items) on the object r of heap h: the heap afterwards.
addErrors(h, r, items) == [h EXCEPT ![r].errors = pushErrors(@, items)]

\* if (trace): undefined, "" and 0 are falsy, every object is truthy.
Truthy(v) ==
    CASE v.t = "undefined" -> FALSE
      [] v.t = "string" -> v.v # ""
      [] v.t = "number" -> v.v # 0
      [] OTHER -> TRUE

\* new Success(value, trace): the object constructed.
Success(value, trace) ==
    [variant |-> "Success", value |-> value, errors |-> <<>>,
     traces |-> IF Truthy(trace) THEN pushTraces(<<>>, <<trace>>) ELSE <<>>]

\* new Failure(...errors): the object constructed.
Failure(errors) ==
    [variant |-> "Failure", value |-> 0, errors |-> pushErrors(<<>>, errors),
     traces |-> <<>>]

isSuccess(o) == o.variant = "Success"

isFailure(o) == o.variant = "Failure"

(***************************************************************************)
(* Callbacks.  A callback handed to a combinator is described by what it   *)
(* returns: a Result it builds (from its argument or from a constant, with *)
(* traces of its own), or a Result that exists already, which a closure    *)
(* can capture (the receiver included).                                    *)
(***************************************************************************)
NoResult == [variant |-> "none"]

\* f(arg) on heap h: the heap afterwards and the identity f returns.
Invoke(h, f, arg) ==
    CASE f.kind = "newSuccess" ->
            LET o == Success(IF f.useArg THEN arg.value ELSE f.value, Undefined)
            IN  [heap |-> Append(h, [o EXCEPT !.traces = pushTraces(@, f.traces)]),
                 id |-> Len(h) + 1]
      [] f.kind = "newFailure" ->
            LET o == Failure(IF f.useArg THEN arg.errors ELSE f.errors)
            IN  [heap |-> Append(h, [o EXCEPT !.traces = pushTraces(@, f.traces)]),
                 id |-> Len(h) + 1]
      [] f.kind = "existing" -> [heap |-> h, id |-> f.id]

\* What a combinator did: the heap afterwards, the identity it returns, the
\* callbacks it invoked, and the Result the callback returned, as returned.
\* `return this`: nothing is called, nothing changes.
this(h, r) == [heap |-> h, ret |-> r, calls |-> <<>>, fout |-> NoResult]

\* f(...).addTraces(...this.getTraces()): f runs first, then the receiver's
\* traces are read and appended to what f returned.
carry(h, r, f, arg) ==
    LET inv == Invoke(h, f, arg)
    IN  [heap |-> addTraces(inv.heap, inv.id, getTraces(inv.heap[r])),
         ret |-> inv.id,
         calls |-> <<f.name>>,
         fout |-> inv.heap[inv.id]]

\* A faulty mapSuccess: Failure does not override it.
mapSuccessOnAnyVariant(h, r, f) ==
    carry(h, r, f, [value |-> h[r].value, errors |-> <<>>])

mapSuccess(h, r, f) ==
    IF isSuccess(h[r])
    THEN carry(h, r, f, [value |-> h[r].value, errors |-> <<>>])
    ELSE this(h, r)

mapFailure(h, r, f) ==
    IF isFailure(h[r])
    THEN carry(h, r, f, [value |-> 0, errors |-> getErrors(h[r])])
    ELSE this(h, r)

mapBoth(h, r, onSuccess, onFailure) ==
    IF isSuccess(h[r])
    THEN mapSuccess(h, r, onSuccess)
    ELSE mapFailure(h, r, onFailure)

chainSuccess(h, r, f) ==
    IF isSuccess(h[r])
    THEN carry(h, r, f, [value |-> h[r].value, errors |-> <<>>])
    ELSE this(h, r)

chainFailure(h, r, f) ==
    IF isFailure(h[r])
    THEN carry(h, r, f, [value |-> 0, errors |-> getErrors(h[r])])
    ELSE this(h, r)

chainBoth(h, r, onSuccess, onFailure) ==
    IF isSuccess(h[r])
    THEN chainSuccess(h, r, onSuccess)
    ELSE chainFailure(h, r, onFailure)

\* PureResult.chain: f(this).addTraces(...this.getTraces()), either variant.
chain(h, r, f) ==
    carry(h, r, f, [value |-> h[r].value, errors |-> h[r].errors])

\* new Success(defaultValue).addTraces(...getErrors(), ...getTraces()) on a
\* Failure; this on a Success.
convertFailureToSuccess(h, r, defaultValue) ==
    IF isFailure(h[r])
    THEN [heap |-> addTraces(Append(h, Success(defaultValue, Undefined)),
                             Len(h) + 1,
                             getErrors(h[r]) \o getTraces(h[r])),
          ret |-> Len(h) + 1,
          calls |-> <<>>,
          fout |-> NoResult]
    ELSE this(h, r)

(***************************************************************************)
(* Inputs.                                                                 *)
(***************************************************************************)
\* Valid messages.
A == Obj([kind |-> Str("information"), type |-> Str("information"),
          code |-> Str("a")])

B == Obj([kind |-> Str("metric"), type |-> Str("start"), code |-> Str("b"),
          data |-> Str("2025-11-28T20:51:00Z")])

C == Obj([kind |-> Str("information"), type |-> Str("warning"),
          code |-> Str("c"), data |-> Undefined])

E1 == generateError([type |-> Str("processError"), code |-> Str("e1")])

E2 == generateError([type |-> Str("technicalIssue"), code |-> Str("e2"),
                     data |-> Obj([test |-> Str("test")])])

\* Candidates that fail validation: a kind that is no string (the candidate
\* is JSON all the same), and data that is no JSON (a Date).
X == Obj([kind |-> Num(1), type |-> Str("information"), code |-> Str("x")])

Y == Obj([kind |-> Str("information"), type |-> Str("information"),
          code |-> Str("y"), data |-> DateValue])

\* A candidate whose code is the empty string.
Z == Obj([kind |-> Str("metric"), type |-> Str("stop"), code |-> Str("")])

\* The argument lists of addTraces, and the optional trace of new Success.
TraceArgs == {<<A>>, <<Y>>, <<Z, X>>}

InitialTraces == {Undefined, A}

\* The argument lists of new Failure and addErrors.
ErrorArgs == {<<>>, <<E1>>, <<Y>>, <<A, X>>}

Values == {1, 2}

\* Callbacks building a Success: x => new Success(x), and x => new
\* Success(2).addTraces(C).
NewSuccessFns(name) ==
    {[name |-> name, kind |-> "newSuccess", useArg |-> TRUE, value |-> 0,
      traces |-> <<>>],
     [name |-> name, kind |-> "newSuccess", useArg |-> FALSE, value |-> 2,
      traces |-> <<C>>]}

\* Callbacks building a Failure: errors => new Failure(...errors), and
\* errors => new Failure(E2).addTraces(C).
NewFailureFns(name) ==
    {[name |-> name, kind |-> "newFailure", useArg |-> TRUE, errors |-> <<>>,
      traces |-> <<>>],
     [name |-> name, kind |-> "newFailure", useArg |-> FALSE,
      errors |-> <<E2>>, traces |-> <<C>>]}

\* Closures returning a Result that exists already.
ExistingFns(name, ids) == {[name |-> name, kind |-> "existing", id |-> i] : i \in ids}

SuccessFns(name, h) ==
    NewSuccessFns(name)
        \cup ExistingFns(name, {j \in DOMAIN h : isSuccess(h[j])})

FailureFns(name, h) ==
    NewFailureFns(name)
        \cup ExistingFns(name, {j \in DOMAIN h : isFailure(h[j])})

ResultFns(name, h) == SuccessFns(name, h) \cup FailureFns(name, h)

\* Bound of the model: the number of operations of a run.
MaxSteps == 3

(***************************************************************************)
(* The state machine of the synchronous algebra.                           *)
(***************************************************************************)
Init ==
    /\ heap = <<>>
    /\ last = [op |-> "init", recv |-> 0, pre |-> NoResult, ret |-> 0,
               calls |-> <<>>, fout |-> NoResult, arg |-> <<>>,
               caught |-> FALSE, e |-> Undefined, settled |-> "none"]
    /\ passed = <<>>
    /\ steps = 0
    /\ asyncs = <<>>
    /\ runs = <<>>
    /\ started = <<>>
    /\ pending = <<>>
    /\ held = <<>>

\* The items an operation passed to addTraces of the existing object i: the
\* arguments of an addTraces call, and the receiver's traces when a
\* combinator appended them to the existing object its callback returned.
TracesPassed(op, r, R, arg, i) ==
    IF op = "addTraces"
    THEN IF i = r THEN Len(arg) ELSE 0
    ELSE IF R.calls # <<>> /\ i = R.ret THEN Len(heap[r].traces) ELSE 0

ErrorsPassed(op, r, arg, i) == IF op = "addErrors" /\ i = r THEN Len(arg) ELSE 0

\* An operation on receiver r with outcome R (see `this`).
Record(op, r, R, arg) ==
    /\ steps < MaxSteps
    /\ heap' = R.heap
    /\ last' = [op |-> op, recv |-> r, pre |-> heap[r], ret |-> R.ret,
                calls |-> R.calls, fout |-> R.fout, arg |-> arg]
    /\ passed' =
        [i \in DOMAIN R.heap |->
            IF i > Len(heap)
            THEN [traces0 |-> Len(R.heap[i].traces),
                  errors0 |-> Len(R.heap[i].errors),
                  traces |-> 0, errors |-> 0]
            ELSE [passed[i] EXCEPT
                    !.traces = @ + TracesPassed(op, r, R, arg, i),
                    !.errors = @ + ErrorsPassed(op, r, arg, i)]]
    /\ steps' = steps + 1
    /\ UNCHANGED <<asyncVars, held>>

\* An object constructed by `new`, which passed nTraces items to addTraces
\* and nErrors items to addErrors.
Construct(op, o, arg, nTraces, nErrors) ==
    /\ steps < MaxSteps
    /\ heap' = Append(heap, o)
    /\ last' = [op |-> op, recv |-> 0, pre |-> NoResult, ret |-> Len(heap) + 1,
                calls |-> <<>>, fout |-> NoResult, arg |-> arg]
    /\ passed' = Append(passed, [traces0 |-> 0, errors0 |-> 0,
                                 traces |-> nTraces, errors |-> nErrors])
    /\ steps' = steps + 1
    /\ UNCHANGED <<asyncVars, held>>

NewSuccess ==
    \E v \in Values, trace \in InitialTraces :
        Construct("newSuccess", Success(v, trace), <<trace>>,
                  IF Truthy(trace) THEN 1 ELSE 0, 0)

NewFailure ==
    \E errors \in ErrorArgs :
        Construct("newFailure", Failure(errors), errors, 0, Len(errors))

AddTraces ==
    \E r \in DOMAIN heap, items \in TraceArgs :
        Record("addTraces", r, this(addTraces(heap, r, items), r), items)

AddErrors ==
    \E r \in DOMAIN heap, items \in ErrorArgs :
        /\ isFailure(heap[r])
        /\ Record("addErrors", r, this(addErrors(heap, r, items), r), items)

MapSuccess ==
    \E r \in DOMAIN heap : \E f \in SuccessFns("f", heap) :
        Record("mapSuccess", r, mapSuccess(heap, r, f), <<>>)

MapFailure ==
    \E r \in DOMAIN heap : \E f \in FailureFns("f", heap) :
        Record("mapFailure", r, mapFailure(heap, r, f), <<>>)

MapBoth ==
    \E r \in DOMAIN heap :
        \E onSuccess \in NewSuccessFns("onSuccess"),
           onFailure \in NewFailureFns("onFailure") :
            Record("mapBoth", r, mapBoth(heap, r, onSuccess, onFailure), <<>>)

ChainSuccess ==
    \E r \in DOMAIN heap : \E f \in ResultFns("f", heap) :
        Record("chainSuccess", r, chainSuccess(heap, r, f), <<>>)

ChainFailure ==
    \E r \in DOMAIN heap : \E f \in ResultFns("f", heap) :
        Record("chainFailure", r, chainFailure(heap, r, f), <<>>)

ChainBoth ==
    \E r \in DOMAIN heap :
        \E onSuccess \in ResultFns("onSuccess", <<>>),
           onFailure \in ResultFns("onFailure", <<>>) :
            Record("chainBoth", r, chainBoth(heap, r, onSuccess, onFailure),
                   <<>>)

Chain ==
    \E r \in DOMAIN heap : \E f \in ResultFns("f", heap) :
        Record("chain", r, chain(heap, r, f), <<>>)

ConvertFailureToSuccess ==
    \E r \in DOMAIN heap, d \in Values :
        Record("convertFailureToSuccess", r,
               convertFailureToSuccess(heap, r, d), d)

Next ==
    \/ NewSuccess
    \/ NewFailure
    \/ AddTraces
    \/ AddErrors
    \/ MapSuccess
    \/ MapFailure
    \/ MapBoth
    \/ ChainSuccess
    \/ ChainFailure
    \/ ChainBoth
    \/ Chain
    \/ ConvertFailureToSuccess

Spec == Init /\ [][Next]_vars

(***************************************************************************)
(* Properties of the synchronous algebra.                                  *)
(***************************************************************************)
Returned == heap[last.ret]

\* C1: chainSuccess on a Success, chainFailure on a Failure, chainBoth and
\* chain on either variant return the Result the callback produced, with a
\* trace list that is exactly that Result's own traces followed by all of the
\* receiver's traces, in order.
C1_ChainAppendsReceiverTraces ==
    (last.op \in {"chainSuccess", "chainFailure", "chainBoth", "chain"}
        /\ last.calls # <<>>)
    => Returned = [last.fout EXCEPT !.traces = @ \o last.pre.traces]

\* C2: mapSuccess on a Success and mapFailure on a Failure return the Result
\* the callback built with the receiver's traces appended after its own; with
\* x => new Success(x) the value and the trace list are the receiver's.
C2_MapReattachesTraces ==
    (last.op \in {"mapSuccess", "mapFailure"} /\ last.calls # <<>>)
    => /\ Returned = [last.fout EXCEPT !.traces = @ \o last.pre.traces]
       /\ (last.fout.traces = <<>> /\ last.fout.value = last.pre.value
            => /\ Returned.value = last.pre.value
               /\ Returned.traces = last.pre.traces)

\* C3: a combinator applied to the other variant calls nothing and returns a
\* Result with the receiver's variant, value, errors and traces; mapBoth and
\* chainBoth call exactly the one callback matching the receiver, once.
C3_NoOpOnOtherVariant ==
    /\ (last.op \in {"mapSuccess", "chainSuccess"} /\ isFailure(last.pre))
        => (last.calls = <<>> /\ Returned = last.pre)
    /\ (last.op \in {"mapFailure", "chainFailure"} /\ isSuccess(last.pre))
        => (last.calls = <<>> /\ Returned = last.pre)
    /\ last.op \in {"mapBoth", "chainBoth"}
        => last.calls = IF isSuccess(last.pre) THEN <<"onSuccess">>
                        ELSE <<"onFailure">>

C3_Witness ==
    /\ last.op = "mapSuccess"
    /\ isFailure(last.pre)
    /\ last.pre.errors # <<>>
    /\ last.pre.traces # <<>>

\* C4: convertFailureToSuccess(d) on a Failure with errors E and traces T
\* returns a Success of value d whose trace list is exactly E followed by T;
\* on a Success it returns the receiver unchanged.
C4_ConvertDemotesErrors ==
    last.op = "convertFailureToSuccess"
    => IF isFailure(last.pre)
       THEN /\ isSuccess(Returned)
            /\ Returned.value = last.arg
            /\ Returned.traces = last.pre.errors \o last.pre.traces
       ELSE last.ret = last.recv /\ Returned = last.pre

\* C5: addTraces returns the receiver; every earlier entry is unchanged, the
\* list is longer by the number of items, and each item that passes
\* validation is stored, equal to the item, at its place after them.
C5_AddTracesAppendsValid ==
    last.op = "addTraces"
    => /\ last.ret = last.recv
       /\ Len(Returned.traces) = Len(last.pre.traces) + Len(last.arg)
       /\ SubSeq(Returned.traces, 1, Len(last.pre.traces)) = last.pre.traces
       /\ \A i \in DOMAIN last.arg :
            messageSchema(last.arg[i])
            => Returned.traces[Len(last.pre.traces) + i] = last.arg[i]

C5_Witness ==
    /\ last.op = "addTraces"
    /\ last.arg = <<A>>
    /\ last.pre.traces # <<>>
    /\ Returned.traces[Len(Returned.traces)] = A

\* C6: the trace list (error list) of every Result is as long as it was at
\* creation plus the number of items passed to addTraces (addErrors) since,
\* valid or not.
C6_OneEntryPerItem ==
    \A i \in DOMAIN heap :
        /\ Len(heap[i].traces) = passed[i].traces0 + passed[i].traces
        /\ Len(heap[i].errors) = passed[i].errors0 + passed[i].errors

C6_Witness ==
    \E i \in DOMAIN heap :
        /\ passed[i].traces >= 2
        /\ passed[i].errors >= 3
        /\ \E k \in DOMAIN heap[i].errors : ~messageSchema(Get(Get(heap[i].errors[k], "data"), "pureMessage"))

\* C7: a candidate that fails validation is stored as exactly one substitute
\* of kind "error" and code "invalidTraceMessage" ("invalidError" through
\* addErrors and new Failure) whose data holds the candidate and the
\* diagnostic; the candidate itself is not stored.
SubstituteOf(entry, c, code) ==
    /\ Get(entry, "kind") = Str("error")
    /\ Get(entry, "code") = Str(code)
    /\ Get(Get(entry, "data"), "pureMessage") = c
    /\ Get(Get(entry, "data"), "zodError") = treeifyError(c)
    /\ entry # c

C7_InvalidIsSubstituted ==
    /\ last.op = "addTraces"
        => /\ Len(Returned.traces) = Len(last.pre.traces) + Len(last.arg)
           /\ \A i \in DOMAIN last.arg :
                ~messageSchema(last.arg[i])
                => SubstituteOf(Returned.traces[Len(last.pre.traces) + i],
                                last.arg[i], "invalidTraceMessage")
    /\ last.op = "addErrors"
        => /\ Len(Returned.errors) = Len(last.pre.errors) + Len(last.arg)
           /\ \A i \in DOMAIN last.arg :
                ~messageSchema(last.arg[i])
                => SubstituteOf(Returned.errors[Len(last.pre.errors) + i],
                                last.arg[i], "invalidError")
    /\ last.op = "newFailure"
        => /\ Len(Returned.errors) = Len(last.arg)
           /\ \A i \in DOMAIN last.arg :
                ~messageSchema(last.arg[i])
                => SubstituteOf(Returned.errors[i], last.arg[i], "invalidError")

C7_Witness ==
    /\ last.op = "addTraces"
    /\ last.arg = <<Y>>
    /\ Get(Returned.traces[Len(Returned.traces)], "code") = Str("invalidTraceMessage")

(***************************************************************************)
(* ResultAsync (pure_result_async.ts).  A ResultAsync holds a computation  *)
(* and nothing else: a factory keeps what it was given, a combinator keeps *)
(* its receiver (up) and its callbacks.  resolve() runs the computation.   *)
(***************************************************************************)
NoFn == [name |-> "", kind |-> "none"]

ResultAsync(op, up, onSuccess, onFailure, given) ==
    [op |-> op, up |-> up, onSuccess |-> onSuccess, onFailure |-> onFailure,
     given |-> given]

\* Values a computation throws or rejects with, besides those above: an
\* Error object (no enumerable property of its own) and a BigInt.
ErrorObject == [t |-> "Error"]

BigIntValue == [t |-> "bigint"]

\* JSON.stringify(e) on the values thrown here: the string returned (or
\* undefined, for undefined), or the TypeError thrown for a BigInt.
JSONstringify(e) ==
    CASE e.t = "undefined" -> [threw |-> FALSE, v |-> Undefined]
      [] e.t = "string" -> [threw |-> FALSE, v |-> Str("\"" \o e.v \o "\"")]
      [] e.t = "Error" -> [threw |-> FALSE, v |-> Str("{}")]
      [] e.t = "bigint" -> [threw |-> TRUE, v |-> ErrorObject]

generateFailure(parameters) == Failure(<<generateError(parameters)>>)

\* How a run of a computation ends: it returns (a promise of) the Result id,
\* it throws or rejects with e, or it returns the promise of the ResultAsync
\* `then`, which is resolved in its turn.
Returns(h, R) ==
    [heap |-> R.heap, kind |-> "returns", id |-> R.ret, e |-> Undefined,
     calls |-> R.calls, fout |-> R.fout, then |-> 0]

Throws(h, e) ==
    [heap |-> h, kind |-> "throws", id |-> 0, e |-> e, calls |-> <<>>,
     fout |-> NoResult, then |-> 0]

Awaits(h, f) ==
    [heap |-> h, kind |-> "awaits", id |-> 0, e |-> Undefined,
     calls |-> <<f.name>>, fout |-> NoResult, then |-> f.id]

\* helpers.fromResultPromise(next(arg)): next runs and its promise is
\* returned as it is; the traces of the upstream Result are not added.
fromResultPromise(h, next, arg) ==
    IF next.kind = "resultAsync"
    THEN Awaits(h, next)
    ELSE LET inv == Invoke(h, next, arg)
         IN  Returns(h, [heap |-> inv.heap, ret |-> inv.id,
                         calls |-> <<next.name>>, fout |-> inv.heap[inv.id]])

\* The computation of a factory: nothing is awaited.
liftSuccess(h, value) ==
    Returns(h, this(Append(h, Success(value, Undefined)), Len(h) + 1))

liftResult(h, result) == Returns(h, this(h, result))

liftFailure(h, parameters) ==
    Returns(h, this(Append(h, generateFailure(parameters)), Len(h) + 1))

\* What an error callback is handed: the value that was caught, which a callback may
\* embed in the error of the Failure it builds,
\* e => new Failure(generateError({ type, code, data: e })).
Caught(e) ==
    [value |-> 0,
     errors |-> <<generateError([type |-> Str("technicalIssue"),
                                 code |-> Str("caught"), data |-> e])>>]

\* A mutant of helpers.fromPromise without a rejection handler: the rejection
\* goes on to the catch of resolve().
fromPromiseWithoutRejectionHandler(h, promise, failure) ==
    IF promise.kind = "fulfils"
    THEN [liftSuccess(h, promise.v) EXCEPT !.calls = <<"promise">>]
    ELSE [Throws(h, promise.e) EXCEPT !.calls = <<"promise">>]

\* helpers.fromPromise(promise(), failure): the factory `promise` is called;
\* the value it fulfils with is lifted into a new Success, the reason it
\* rejects with is handed to `failure`, whose Failure is lifted as it is.
fromPromise(h, promise, failure) ==
    IF promise.kind = "fulfils"
    THEN [liftSuccess(h, promise.v) EXCEPT !.calls = <<"promise">>]
    ELSE LET inv == Invoke(h, failure, Caught(promise.e))
         IN  Returns(h, [heap |-> inv.heap, ret |-> inv.id,
                         calls |-> <<"promise", failure.name>>,
                         fout |-> inv.heap[inv.id]])

\* The computation of a combinator after `await this.resolve()` gave the
\* Result r.
ResultAsync_mapSuccess(h, r, onSuccess) == Returns(h, mapSuccess(h, r, onSuccess))

ResultAsync_mapFailure(h, r, onFailure) ==
    IF isFailure(h[r])
    THEN Returns(h, mapFailure(h, r, onFailure))
    ELSE liftResult(h, r)

ResultAsync_mapBoth(h, r, onSuccess, onFailure) ==
    Returns(h, mapBoth(h, r, onSuccess, onFailure))

ResultAsync_chain(h, r, next) ==
    fromResultPromise(h, next, [value |-> h[r].value, errors |-> h[r].errors])

ResultAsync_chainSuccess(h, r, next) ==
    IF isSuccess(h[r])
    THEN fromResultPromise(h, next, [value |-> h[r].value, errors |-> <<>>])
    ELSE liftResult(h, r)

ResultAsync_chainFailure(h, r, next) ==
    IF isFailure(h[r])
    THEN fromResultPromise(h, next, [value |-> 0, errors |-> getErrors(h[r])])
    ELSE liftResult(h, r)

ResultAsync_chainBoth(h, r, nextSuccess, nextFailure) ==
    IF isFailure(h[r])
    THEN fromResultPromise(h, nextFailure,
                           [value |-> 0, errors |-> getErrors(h[r])])
    ELSE fromResultPromise(h, nextSuccess,
                           [value |-> h[r].value, errors |-> <<>>])

\* What `await` gave a computation: nothing yet, a Result, or a rejection.
None == [kind |-> "none", id |-> 0, e |-> Undefined]

\* One run of the computation of the ResultAsync a, from the point where the
\* upstream resolve() (if any) has settled as `awaited`.  A rejected await
\* throws inside the computation.
compute(h, a, awaited) ==
    CASE awaited.kind = "rejected" -> Throws(h, awaited.e)
      [] a.op = "liftSuccess" -> liftSuccess(h, a.given)
      [] a.op = "liftResult" -> liftResult(h, a.given)
      [] a.op = "liftFailure" -> liftFailure(h, a.given)
      [] a.op = "throw" -> Throws(h, a.given)
      [] a.op = "fromPromise" -> fromPromise(h, a.given, a.onFailure)
      [] a.op = "mapSuccess" -> ResultAsync_mapSuccess(h, awaited.id, a.onSuccess)
      [] a.op = "mapFailure" -> ResultAsync_mapFailure(h, awaited.id, a.onFailure)
      [] a.op = "mapBoth" ->
            ResultAsync_mapBoth(h, awaited.id, a.onSuccess, a.onFailure)
      [] a.op = "chain" -> ResultAsync_chain(h, awaited.id, a.onSuccess)
      [] a.op = "chainSuccess" ->
            ResultAsync_chainSuccess(h, awaited.id, a.onSuccess)
      [] a.op = "chainFailure" ->
            ResultAsync_chainFailure(h, awaited.id, a.onFailure)
      [] a.op = "chainBoth" ->
            ResultAsync_chainBoth(h, awaited.id, a.onSuccess, a.onFailure)

\* A faulty adoption: the promise is not waited for, the Result of the
\* receiver is passed on in its place.
adoptWithoutAwaiting(h, frame, awaited) ==
    Returns(h, [heap |-> h, ret |-> frame.recv, calls |-> frame.calls,
                fout |-> h[frame.recv]])

\* promise.then(liftResult) once the ResultAsync the callback returned has
\* settled: its Result is passed on, its rejection is passed on.
adopt(h, frame, awaited) ==
    IF awaited.kind = "rejected"
    THEN Throws(h, awaited.e)
    ELSE Returns(h, [heap |-> h, ret |-> awaited.id, calls |-> frame.calls,
                     fout |-> h[awaited.id]])

\* The try / catch of resolve() around the awaited computation: how the
\* promise of resolve() settles.
uncaughtException(out) ==
    IF out.kind = "returns"
    THEN [heap |-> out.heap, kind |-> "fulfilled", id |-> out.id,
          e |-> Undefined]
    ELSE LET message == JSONstringify(out.e)
         IN  IF message.threw
             THEN [heap |-> out.heap, kind |-> "rejected", id |-> 0,
                   e |-> message.v]
             ELSE [heap |-> Append(out.heap,
                        generateFailure(
                            [type |-> Str("technicalIssue"),
                             code |-> Str("uncaughtException"),
                             data |-> Obj([message |-> message.v])])),
                   kind |-> "fulfilled", id |-> Len(out.heap) + 1,
                   e |-> Undefined]

\* A faulty resolve: a computation that ran already is not run again.
RECURSIVE resolveMemoized(_, _, _)
resolveMemoized(as, rs, a) ==
    LET ran == [rs EXCEPT ![a] = IF @ = 0 THEN 1 ELSE @]
    IN  IF as[a].up = 0 THEN ran ELSE resolveMemoized(as, ran, as[a].up)

\* a.resolve() up to its first suspension: the computation of a is called,
\* and a combinator's computation calls resolve() of its receiver at once.
\* The run counters afterwards.
RECURSIVE resolve(_, _, _)
resolve(as, rs, a) ==
    LET ran == [rs EXCEPT ![a] = @ + 1]
    IN  IF as[a].up = 0 THEN ran ELSE resolve(as, ran, as[a].up)

\* The calls of resolve() this leaves suspended, the outermost first.
RECURSIVE frames(_, _)
frames(as, a) ==
    <<[a |-> a, adopting |-> FALSE, recv |-> 0, calls |-> <<>>]>>
        \o (IF as[a].up = 0 THEN <<>> ELSE frames(as, as[a].up))

(***************************************************************************)
(* Inputs of the asynchronous algebra.                                     *)
(***************************************************************************)
\* The Results handed to ResultAsync.liftResult, built by `new`.
GivenResults == {Success(1, A)}

FailureParameters == {[type |-> Str("processError"), code |-> Str("e1")]}

\* What a computation throws or rejects with.
Thrown == {Str("boom"), Undefined, BigIntValue}

\* Callbacks of the asynchronous mapSuccess and mapFailure:
\* x => new Success(2).addTraces(C), errors => new Failure(...errors).
OnSuccessFns(name) == {f \in NewSuccessFns(name) : ~f.useArg}

OnFailureFns(name) == {f \in NewFailureFns(name) : f.useArg}

\* Callbacks of chain*: async () => new Success(2).addTraces(C), and
\* () => b for a ResultAsync b that exists already.
NextFns(name, as) ==
    OnSuccessFns(name)
        \cup {[name |-> name, kind |-> "resultAsync", id |-> b] :
                b \in DOMAIN as}

\* What the factory handed to ResultAsync.fromPromise does: its promise
\* fulfils with v or rejects with e.
PromiseFns ==
    {[kind |-> "fulfils", v |-> 2, e |-> Undefined]}
        \cup {[kind |-> "rejects", v |-> 0, e |-> e] : e \in Thrown}

\* Bounds of the model: the ResultAsync objects built, the resolve() calls
\* the program makes.
MaxAsyncs == 2

MaxResolutions == 2

(***************************************************************************)
(* The state machine of the asynchronous algebra.                          *)
(***************************************************************************)
\* ResultAsync(compute): the object is built, nothing runs.
New(a, h) ==
    /\ Len(asyncs) < MaxAsyncs
    /\ asyncs' = Append(asyncs, a)
    /\ runs' = Append(runs, 0)
    /\ started' = Append(started, 0)
    /\ heap' = h
    /\ UNCHANGED <<last, passed, steps, pending, held>>

LiftSuccess ==
    \E value \in {1} :
        New(ResultAsync("liftSuccess", 0, NoFn, NoFn, value), heap)

LiftResult ==
    \E result \in GivenResults :
        New(ResultAsync("liftResult", 0, NoFn, NoFn, Len(heap) + 1),
            Append(heap, result))

LiftFailure ==
    \E parameters \in FailureParameters :
        New(ResultAsync("liftFailure", 0, NoFn, NoFn, parameters), heap)

\* ResultAsync(compute) with a computation that throws, or returns a promise
\* that rejects.
Throwing ==
    \E e \in Thrown : New(ResultAsync("throw", 0, NoFn, NoFn, e), heap)

FromPromise ==
    \E promise \in PromiseFns, failure \in NewFailureFns("failure") :
        New(ResultAsync("fromPromise", 0, NoFn, failure, promise), heap)

AsyncMapSuccess ==
    \E up \in DOMAIN asyncs, onSuccess \in OnSuccessFns("onSuccess") :
        New(ResultAsync("mapSuccess", up, onSuccess, NoFn, 0), heap)

AsyncMapFailure ==
    \E up \in DOMAIN asyncs, onFailure \in OnFailureFns("onFailure") :
        New(ResultAsync("mapFailure", up, NoFn, onFailure, 0), heap)

AsyncMapBoth ==
    \E up \in DOMAIN asyncs, onSuccess \in OnSuccessFns("onSuccess"),
       onFailure \in OnFailureFns("onFailure") :
        New(ResultAsync("mapBoth", up, onSuccess, onFailure, 0), heap)

AsyncChain ==
    \E up \in DOMAIN asyncs : \E next \in NextFns("next", asyncs) :
        New(ResultAsync("chain", up, next, NoFn, 0), heap)

AsyncChainSuccess ==
    \E up \in DOMAIN asyncs : \E next \in NextFns("next", asyncs) :
        New(ResultAsync("chainSuccess", up, next, NoFn, 0), heap)

AsyncChainFailure ==
    \E up \in DOMAIN asyncs : \E next \in NextFns("next", asyncs) :
        New(ResultAsync("chainFailure", up, NoFn, next, 0), heap)

AsyncChainBoth ==
    \E up \in DOMAIN asyncs :
        \E nextSuccess \in NextFns("nextSuccess", asyncs),
           nextFailure \in OnFailureFns("nextFailure") :
            New(ResultAsync("chainBoth", up, nextSuccess, nextFailure, 0), heap)

\* The program calls a.resolve() (or awaits a): every computation up the
\* chain is started before the call returns its promise.
Resolve ==
    \E a \in DOMAIN asyncs :
        /\ Len(pending) < MaxResolutions
        /\ pending' = Append(pending, [target |-> a,
                                       stack |-> frames(asyncs, a),
                                       awaited |-> None])
        /\ runs' = resolve(asyncs, runs, a)
        /\ started' = [started EXCEPT ![a] = @ + 1]
        /\ UNCHANGED <<heap, last, passed, steps, asyncs, held>>

\* The innermost suspended resolve() of the resolution res goes on: its
\* computation runs to its end with what it awaited.
run(h, as, res) ==
    IF res.stack[Len(res.stack)].adopting
    THEN adopt(h, res.stack[Len(res.stack)], res.awaited)
    ELSE compute(h, as[res.stack[Len(res.stack)].a], res.awaited)

\* What that step was given and did, for the properties.
Seen(frame, awaited, out) ==
    [op |-> asyncs[frame.a].op,
     recv |-> IF frame.adopting THEN frame.recv ELSE awaited.id,
     pre |-> IF frame.adopting
             THEN heap[frame.recv]
             ELSE IF awaited.id = 0 THEN NoResult ELSE heap[awaited.id],
     calls |-> out.calls, fout |-> out.fout,
     arg |-> <<asyncs[frame.a].given, asyncs[frame.a].onFailure>>,
     e |-> out.e, awaited |-> awaited, adopting |-> frame.adopting]

\* The computation returned the ResultAsync out.then: its then() starts it,
\* and the frame waits for it.
Adopt(p, frame, awaited, out) ==
    /\ out.kind = "awaits"
    /\ heap' = out.heap
    /\ pending' = [pending EXCEPT
            ![p].stack =
                SubSeq(@, 1, Len(@) - 1)
                    \o <<[frame EXCEPT !.adopting = TRUE,
                                       !.recv = awaited.id,
                                       !.calls = out.calls]>>
                    \o frames(asyncs, out.then),
            ![p].awaited = None]
    /\ runs' = resolve(asyncs, runs, out.then)
    /\ started' = [started EXCEPT ![out.then] = @ + 1]
    /\ last' = Seen(frame, awaited, out)
                @@ [ret |-> 0, caught |-> FALSE, settled |-> "none"]

\* The computation ended and the promise of this resolve() settles as done.
Finish(p, frame, awaited, out, done) ==
    /\ out.kind # "awaits"
    /\ heap' = done.heap
    /\ pending' = [pending EXCEPT
            ![p].stack = SubSeq(@, 1, Len(@) - 1),
            ![p].awaited = [kind |-> done.kind, id |-> done.id, e |-> done.e]]
    /\ last' = Seen(frame, awaited, out)
                @@ [ret |-> done.id, caught |-> out.kind = "throws",
                    settled |-> done.kind]
    /\ UNCHANGED <<runs, started>>

Settle ==
    \E p \in DOMAIN pending :
        /\ pending[p].stack # <<>>
        /\ \E frame \in {pending[p].stack[Len(pending[p].stack)]},
              awaited \in {pending[p].awaited},
              out \in {run(heap, asyncs, pending[p])} :
                \/ Adopt(p, frame, awaited, out)
                \/ \E done \in {uncaughtException(out)} :
                        Finish(p, frame, awaited, out, done)
        /\ UNCHANGED <<asyncs, passed, steps, held>>

NextAsync ==
    \/ LiftSuccess
    \/ LiftResult
    \/ LiftFailure
    \/ Throwing
    \/ FromPromise
    \/ AsyncMapSuccess
    \/ AsyncMapFailure
    \/ AsyncMapBoth
    \/ AsyncChain
    \/ AsyncChainSuccess
    \/ AsyncChainFailure
    \/ AsyncChainBoth
    \/ Resolve
    \/ Settle

SpecAsync == Init /\ [][NextAsync]_vars

(***************************************************************************)
(* Properties of the asynchronous algebra.                                 *)
(***************************************************************************)
\* The ResultAsync objects a resolution of a runs: a and all upstream of it.
Upstream(a) == {frames(asyncs, a)[i].a : i \in DOMAIN frames(asyncs, a)}

\* The resolve() / then() calls made from outside on the first n ResultAsync
\* objects that have s in their chain.
RECURSIVE ResolutionsThrough(_, _)
ResolutionsThrough(s, n) ==
    IF n = 0
    THEN 0
    ELSE (IF s \in Upstream(n) THEN started[n] ELSE 0)
            + ResolutionsThrough(s, n - 1)

\* C8: the computation of a ResultAsync has run once for every resolution of
\* it and once for every resolution of a ResultAsync downstream of it, and
\* not otherwise: not when it is built, not when a combinator is applied.
C8_OneRunPerResolution ==
    \A s \in DOMAIN asyncs : runs[s] = ResolutionsThrough(s, Len(asyncs))

C8_Witness ==
    \E a \in DOMAIN asyncs :
        /\ asyncs[a].up # 0
        /\ started[a] = 2
        /\ runs[a] = 2
        /\ started[asyncs[a].up] = 0
        /\ runs[asyncs[a].up] = 2
        /\ \A p \in DOMAIN pending : pending[p].stack = <<>>

\* C9: when a computation throws or rejects with e, resolve() fulfils with a
\* Failure of exactly one error, of kind "error", type "technicalIssue" and
\* code "uncaughtException", whose data holds the string made of e.
C9_ThrownBecomesUncaughtException ==
    last.caught
    => /\ last.settled = "fulfilled"
       /\ isFailure(Returned)
       /\ Len(Returned.errors) = 1
       /\ Get(Returned.errors[1], "kind") = Str("error")
       /\ Get(Returned.errors[1], "type") = Str("technicalIssue")
       /\ Get(Returned.errors[1], "code") = Str("uncaughtException")
       /\ Get(Get(Returned.errors[1], "data"), "message").t = "string"

\* C10: the asynchronous chainSuccess, chainFailure, chainBoth and chain
\* resolve to the Result the callback produced with the traces of the
\* upstream Result appended after its own.
C10_AsyncChainAppendsUpstreamTraces ==
    (last.op \in {"chainSuccess", "chainFailure", "chainBoth", "chain"}
        /\ last.calls # <<>>
        /\ last.settled = "fulfilled"
        /\ ~last.caught)
    => Returned = [last.fout EXCEPT !.traces = @ \o last.pre.traces]

\* C15: a resolution of ResultAsync.fromPromise(promise, failure) calls the
\* factory `promise` once.  When its promise fulfils with v, the resolution
\* gives a new Success of v without traces and `failure` is not called; when
\* it rejects with e, `failure` is called once, with e, and the resolution
\* gives the Failure it returned, not an uncaughtException Failure.
C15_FromPromise ==
    (last.op = "fromPromise" /\ last.settled # "none")
    => /\ Len(SelectSeq(last.calls, LAMBDA c : c = "promise")) = 1
       /\ last.settled = "fulfilled"
       /\ ~last.caught
       /\ last.arg[1].kind = "fulfils"
            => /\ last.calls = <<"promise">>
               /\ isSuccess(Returned)
               /\ Returned.value = last.arg[1].v
               /\ Returned.traces = <<>>
       /\ last.arg[1].kind = "rejects"
            => /\ last.calls = <<"promise", "failure">>
               /\ isFailure(Returned)
               /\ Returned = last.fout
               /\ Returned
                    = Invoke(<<>>, last.arg[2], Caught(last.arg[1].e)).heap[1]

C15_Witness ==
    /\ last.op = "fromPromise"
    /\ last.settled = "fulfilled"
    /\ last.arg[1].kind = "rejects"
    /\ last.arg[1].e = Str("boom")
    /\ last.arg[2].useArg
    /\ last.calls = <<"promise", "failure">>
    /\ isFailure(Returned)
    /\ Get(Returned.errors[1], "code") = Str("caught")
    /\ Get(Returned.errors[1], "data") = Str("boom")

(***************************************************************************)
(* GetResult (pure_result.ts): fromThrowable, fromResultArray and          *)
(* fromResultArrayAsSuccess.  The array holds Result identities; the loop  *)
(* is a recursion over the index that carries the locals of the method.    *)
(***************************************************************************)
\* What an aggregation did: the heap afterwards, the identity returned, and
\* how many entries of the array the loop looked at.
Aggregated(h, ret, inspected) ==
    [heap |-> h, ret |-> ret, inspected |-> inspected]

\* A faulty fromResultArray: firstFailureOnly is not looked at.
RECURSIVE fromResultArrayAllFailures(_, _, _, _, _, _, _)
fromResultArrayAllFailures(h, results, i, firstFailureOnly, successes, traces, failure) ==
    IF i > Len(results)
    THEN IF failure # 0
         THEN Aggregated(h, failure, i - 1)
         ELSE Aggregated(
                addTraces(Append(h, Success(successes, Undefined)),
                          Len(h) + 1, traces),
                Len(h) + 1, i - 1)
    ELSE IF isFailure(h[results[i]])
         THEN IF failure = 0
              THEN fromResultArrayAllFailures(
                        addTraces(h, results[i],
                                  traces \o getTraces(h[results[i]])),
                        results, i + 1, firstFailureOnly, successes,
                        traces \o getTraces(h[results[i]]), results[i])
              ELSE fromResultArrayAllFailures(
                        addTraces(
                            addErrors(h, failure, getErrors(h[results[i]])),
                            failure, traces \o getTraces(h[results[i]])),
                        results, i + 1, firstFailureOnly, successes,
                        traces \o getTraces(h[results[i]]), failure)
         ELSE fromResultArrayAllFailures(
                    h, results, i + 1, firstFailureOnly,
                    Append(successes, h[results[i]].value),
                    traces \o getTraces(h[results[i]]), failure)

\* GetResult.fromResultArray from entry i on, with the locals successes,
\* traces and failure (0: undefined).  The traces of an entry are read and
\* pushed on the buffer before its variant is looked at; the first Failure
\* of the array is the object returned, and it is changed in place.
RECURSIVE fromResultArray(_, _, _, _, _, _, _)
fromResultArray(h, results, i, firstFailureOnly, successes, traces, failure) ==
    IF i > Len(results)
    THEN IF failure # 0
         THEN Aggregated(h, failure, i - 1)
         ELSE Aggregated(
                addTraces(Append(h, Success(successes, Undefined)),
                          Len(h) + 1, traces),
                Len(h) + 1, i - 1)
    ELSE IF isFailure(h[results[i]])
         THEN IF failure = 0
              THEN IF firstFailureOnly
                   THEN Aggregated(
                            addTraces(h, results[i],
                                      traces \o getTraces(h[results[i]])),
                            results[i], i)
                   ELSE fromResultArray(
                            addTraces(h, results[i],
                                      traces \o getTraces(h[results[i]])),
                            results, i + 1, firstFailureOnly, successes,
                            traces \o getTraces(h[results[i]]), results[i])
              ELSE fromResultArray(
                        addTraces(
                            addErrors(h, failure, getErrors(h[results[i]])),
                            failure, traces \o getTraces(h[results[i]])),
                        results, i + 1, firstFailureOnly, successes,
                        traces \o getTraces(h[results[i]]), failure)
         ELSE fromResultArray(
                    h, results, i + 1, firstFailureOnly,
                    Append(successes, h[results[i]].value),
                    traces \o getTraces(h[results[i]]), failure)

\* GetResult.fromResultArrayAsSuccess from entry i on: the errors of a
\* Failure are pushed on the trace buffer after its traces.
RECURSIVE fromResultArrayAsSuccess(_, _, _, _, _)
fromResultArrayAsSuccess(h, results, i, successes, traces) ==
    IF i > Len(results)
    THEN Aggregated(
            addTraces(Append(h, Success(successes, Undefined)),
                      Len(h) + 1, traces),
            Len(h) + 1, i - 1)
    ELSE IF isFailure(h[results[i]])
         THEN fromResultArrayAsSuccess(
                    h, results, i + 1, successes,
                    traces \o getTraces(h[results[i]])
                           \o getErrors(h[results[i]]))
         ELSE fromResultArrayAsSuccess(
                    h, results, i + 1,
                    Append(successes, h[results[i]].value),
                    traces \o getTraces(h[results[i]]))

\* A call of onFailure, as fromThrowable reports it.
Handled(R, e) ==
    [heap |-> R.heap, ret |-> R.id,
     calls |-> <<"functionToAudit", "onFailure">>, fout |-> R.heap[R.id],
     given |-> e]

\* A mutant of fromThrowable that turns what functionToAudit throws into an
\* uncaughtException Failure of its own, without calling onFailure.
fromThrowableWithoutOnFailure(h, functionToAudit, onFailure) ==
    IF functionToAudit.kind = "returns"
    THEN [heap |-> Append(h, Success(functionToAudit.x, Undefined)),
          ret |-> Len(h) + 1,
          calls |-> <<"functionToAudit">>,
          fout |-> NoResult,
          given |-> Undefined]
    ELSE [heap |-> Append(h, generateFailure(
                        [type |-> Str("technicalIssue"),
                         code |-> Str("uncaughtException")])),
          ret |-> Len(h) + 1,
          calls |-> <<"functionToAudit">>,
          fout |-> NoResult,
          given |-> Undefined]

\* GetResult.fromThrowable: functionToAudit runs inside try; what it throws
\* is handed to onFailure, whose Failure is returned as it is.
fromThrowable(h, functionToAudit, onFailure) ==
    IF functionToAudit.kind = "returns"
    THEN [heap |-> Append(h, Success(functionToAudit.x, Undefined)),
          ret |-> Len(h) + 1,
          calls |-> <<"functionToAudit">>,
          fout |-> NoResult,
          given |-> Undefined]
    ELSE Handled(Invoke(h, onFailure, Caught(functionToAudit.e)),
                 functionToAudit.e)

(***************************************************************************)
(* Inputs of GetResult: the Results an array is made of, as `new`,         *)
(* addTraces and the Failure constructor leave them.                       *)
(***************************************************************************)
Traced(o, traces) == [o EXCEPT !.traces = pushTraces(@, traces)]

ArrayResults ==
    {Success(1, Undefined), Success(2, A),
     Traced(Failure(<<E1>>), <<B>>), Failure(<<E2>>),
     Traced(Success(1, Undefined), <<Y>>), Failure(<<Y>>)}

\* The arrays handed to the aggregations: every Result there is, in order,
\* and the same with the first Result a second time at the end.
AllResults(h) == [i \in 1..Len(h) |-> i]

Arrays(h) ==
    {AllResults(h)}
        \cup (IF h = <<>> THEN {} ELSE {Append(AllResults(h), 1)})

\* What functionToAudit does: it returns x or it throws e.
ThrowableFns ==
    {[kind |-> "returns", x |-> x, e |-> Undefined] : x \in Values}
        \cup {[kind |-> "throws", x |-> 0, e |-> e] : e \in Thrown}

\* Bounds of the model: the length of the array the Results are given as,
\* and the number of calls of GetResult.
MaxResults == 4

MaxCalls == 1

(***************************************************************************)
(* The state machine of GetResult.                                         *)
(***************************************************************************)
InitGetResult ==
    /\ \E n \in 0..MaxResults : heap \in [1..n -> ArrayResults]
    /\ last = [op |-> "init", arg |-> <<>>, firstFailureOnly |-> FALSE,
               pre |-> <<>>, ret |-> 0, inspected |-> 0, calls |-> <<>>,
               fout |-> NoResult, given |-> Undefined]
    /\ passed = <<>>
    /\ steps = 0
    /\ asyncs = <<>>
    /\ runs = <<>>
    /\ started = <<>>
    /\ pending = <<>>
    /\ held = <<>>

\* A call of GetResult that came to R.
Called(op, results, firstFailureOnly, R) ==
    /\ heap' = R.heap
    /\ last' = [op |-> op, arg |-> results,
                firstFailureOnly |-> firstFailureOnly, pre |-> heap,
                ret |-> R.ret, inspected |-> R.inspected, calls |-> R.calls,
                fout |-> R.fout, given |-> R.given]
    /\ steps' = steps + 1
    /\ UNCHANGED <<passed, asyncs, runs, started, pending, held>>

NoCalls == [calls |-> <<>>, fout |-> NoResult, given |-> Undefined]

FromResultArray ==
    /\ steps < MaxCalls
    /\ \E firstFailureOnly \in BOOLEAN : \E results \in Arrays(heap) :
        \E R \in {fromResultArray(heap, results, 1, firstFailureOnly,
                                  <<>>, <<>>, 0)} :
            Called("fromResultArray", results, firstFailureOnly, R @@ NoCalls)

FromResultArrayAsSuccess ==
    /\ steps < MaxCalls
    /\ \E results \in Arrays(heap) :
        \E R \in {fromResultArrayAsSuccess(heap, results, 1, <<>>, <<>>)} :
            Called("fromResultArrayAsSuccess", results, FALSE, R @@ NoCalls)

FromThrowable ==
    /\ steps < MaxCalls
    /\ \E functionToAudit \in ThrowableFns :
        \E onFailure \in FailureFns("onFailure", heap) :
            \E R \in {fromThrowable(heap, functionToAudit, onFailure)} :
                Called("fromThrowable", <<functionToAudit>>, FALSE,
                       R @@ [inspected |-> 0])

NextGetResult ==
    \/ FromResultArray
    \/ FromResultArrayAsSuccess
    \/ FromThrowable

SpecGetResult == InitGetResult /\ [][NextGetResult]_vars

(***************************************************************************)
(* Properties of GetResult.                                                *)
(***************************************************************************)
\* The places of the Failures in the array `results` of heap h.
FailuresIn(h, results) == {i \in DOMAIN results : isFailure(h[results[i]])}

FirstFailureIn(h, results) ==
    CHOOSE i \in FailuresIn(h, results) :
        \A j \in FailuresIn(h, results) : i <= j

RECURSIVE ErrorsOfFailures(_, _)
ErrorsOfFailures(h, results) ==
    IF results = <<>> THEN <<>>
    ELSE (IF isFailure(h[Head(results)]) THEN h[Head(results)].errors ELSE <<>>)
            \o ErrorsOfFailures(h, Tail(results))

\* C12: without firstFailureOnly, an array that holds a Failure gives a
\* Failure whose errors are the error lists of all the Failures of the array,
\* in the order of the array, each one once.
C12_AllFailuresConcatenated ==
    (last.op = "fromResultArray" /\ ~last.firstFailureOnly
        /\ FailuresIn(last.pre, last.arg) # {})
    => /\ isFailure(Returned)
       /\ Returned.errors = ErrorsOfFailures(last.pre, last.arg)

\* The same for arrays whose Results are all different objects and hold no
\* substitute of an invalid candidate.
C12_ValidDistinct ==
    (/\ \A i, j \in DOMAIN last.arg : last.arg[i] = last.arg[j] => i = j
     /\ \A i \in DOMAIN last.pre :
            \A k \in DOMAIN last.pre[i].errors :
                messageSchema(last.pre[i].errors[k]))
    => C12_AllFailuresConcatenated

\* The values of the Successes of `results`, and the trace lists of all its
\* Results, one after the other.
RECURSIVE ValuesOfSuccesses(_, _)
ValuesOfSuccesses(h, results) ==
    IF results = <<>> THEN <<>>
    ELSE (IF isSuccess(h[Head(results)]) THEN <<h[Head(results)].value>>
          ELSE <<>>)
            \o ValuesOfSuccesses(h, Tail(results))

RECURSIVE TracesOfResults(_, _)
TracesOfResults(h, results) ==
    IF results = <<>> THEN <<>>
    ELSE h[Head(results)].traces \o TracesOfResults(h, Tail(results))

\* C13: an array without a Failure, the empty one included, gives a Success
\* of all the values in the order of the array, whose traces are the trace
\* lists of the inputs one after the other, whatever firstFailureOnly is.
C13_NoFailureGivesSuccess ==
    (last.op = "fromResultArray" /\ FailuresIn(last.pre, last.arg) = {})
    => /\ isSuccess(Returned)
       /\ Returned.value = ValuesOfSuccesses(last.pre, last.arg)
       /\ Returned.traces = TracesOfResults(last.pre, last.arg)

\* The same for arrays whose Results hold no substitute of an invalid
\* candidate.
C13_Valid ==
    (\A i \in DOMAIN last.pre :
        \A k \in DOMAIN last.pre[i].traces :
            messageSchema(last.pre[i].traces[k]))
    => C13_NoFailureGivesSuccess

\* The traces of every Result of `results`, each followed by the errors of
\* the Result when it is a Failure.
RECURSIVE TracesAndErrorsOfResults(_, _)
TracesAndErrorsOfResults(h, results) ==
    IF results = <<>> THEN <<>>
    ELSE h[Head(results)].traces
            \o (IF isFailure(h[Head(results)]) THEN h[Head(results)].errors
                ELSE <<>>)
            \o TracesAndErrorsOfResults(h, Tail(results))

\* Whether the entries of a are found in b, in the order of a.
RECURSIVE IsSubsequence(_, _)
IsSubsequence(a, b) ==
    IF a = <<>> THEN TRUE
    ELSE IF b = <<>> THEN FALSE
    ELSE IF Head(a) = Head(b) THEN IsSubsequence(Tail(a), Tail(b))
    ELSE IsSubsequence(a, Tail(b))

\* C14: fromResultArrayAsSuccess gives a Success of the values of the
\* Successes of the array, in order, whose traces hold, in the order of the
\* array, every trace of every Result and every error of every Failure.
C14_AsSuccessDemotesErrors ==
    last.op = "fromResultArrayAsSuccess"
    => /\ isSuccess(Returned)
       /\ Returned.value = ValuesOfSuccesses(last.pre, last.arg)
       /\ IsSubsequence(TracesAndErrorsOfResults(last.pre, last.arg),
                         Returned.traces)

\* The same for arrays whose Results hold no substitute of an invalid
\* candidate.
C14_Valid ==
    (\A i \in DOMAIN last.pre :
        \A k \in DOMAIN last.pre[i].traces \cup DOMAIN last.pre[i].errors :
            /\ k \in DOMAIN last.pre[i].traces
                => messageSchema(last.pre[i].traces[k])
            /\ k \in DOMAIN last.pre[i].errors
                => messageSchema(last.pre[i].errors[k]))
    => C14_AsSuccessDemotesErrors

\* C16: fromThrowable calls functionToAudit once.  What it returns becomes
\* the value of a new Success without traces, and onFailure is not called;
\* what it throws is handed to onFailure, once, and the Failure onFailure
\* returns is the result, so that nothing thrown escapes.
C16_FromThrowable ==
    last.op = "fromThrowable"
    => /\ Len(SelectSeq(last.calls, LAMBDA c : c = "functionToAudit")) = 1
       /\ last.ret \in DOMAIN heap
       /\ last.arg[1].kind = "returns"
            => /\ last.ret \notin DOMAIN last.pre
               /\ isSuccess(Returned)
               /\ Returned.value = last.arg[1].x
               /\ Returned.traces = <<>>
               /\ last.calls = <<"functionToAudit">>
       /\ last.arg[1].kind = "throws"
            => /\ last.calls = <<"functionToAudit", "onFailure">>
               /\ last.given = last.arg[1].e
               /\ isFailure(Returned)
               /\ Returned = last.fout
               /\ \A i \in DOMAIN last.pre : heap[i] = last.pre[i]

C16_Witness ==
    /\ last.op = "fromThrowable"
    /\ last.arg[1].kind = "throws"
    /\ last.given = BigIntValue
    /\ last.calls = <<"functionToAudit", "onFailure">>
    /\ isFailure(Returned)
    /\ Returned.errors # <<>>
    /\ Returned.errors[1].f.code = Str("invalidError")

(***************************************************************************)
(* Properties of the lists a Result holds.                                 *)
(***************************************************************************)
\* C18: every Failure there is holds at least one error.
C18_FailureHasAnError ==
    \A i \in DOMAIN heap : isFailure(heap[i]) => heap[i].errors # <<>>

\* C19: every entry of the list getErrors() returns is of kind "error".
C19_ErrorsAreOfKindError ==
    \A i \in DOMAIN heap :
        isFailure(heap[i])
        => \A k \in DOMAIN getErrors(heap[i]) :
                Get(getErrors(heap[i])[k], "kind") = Str("error")

\* Whether v is a string that is not the empty one.
NonEmptyString(v) == v.t = "string" /\ v.v # ""

\* C20: the kind, the type and the code of every message stored in a trace
\* list or in an error list are strings, and none of them is empty.
C20_KindTypeCodeNotEmpty ==
    \A i \in DOMAIN heap :
        \A k \in DOMAIN (heap[i].traces \o heap[i].errors) :
            /\ NonEmptyString(Get((heap[i].traces \o heap[i].errors)[k], "kind"))
            /\ NonEmptyString(Get((heap[i].traces \o heap[i].errors)[k], "type"))
            /\ NonEmptyString(Get((heap[i].traces \o heap[i].errors)[k], "code"))

\* The same, for strings only: it holds.
C20_KindTypeCodeAreStrings ==
    \A i \in DOMAIN heap :
        \A k \in DOMAIN (heap[i].traces \o heap[i].errors) :
            /\ Get((heap[i].traces \o heap[i].errors)[k], "kind").t = "string"
            /\ Get((heap[i].traces \o heap[i].errors)[k], "type").t = "string"
            /\ Get((heap[i].traces \o heap[i].errors)[k], "code").t = "string"

(***************************************************************************)
(* The arrays the getters return (pure_result.ts, getTraces / getErrors).  *)
(* The caller holds each returned array; an entry of it is an object of    *)
(* the caller, which knows the places where addTraces stored that very     *)
(* object.  "function" stands for the values z.json() rejects and          *)
(* structuredClone cannot copy (a function, a symbol).                     *)
(***************************************************************************)
FunctionValue == [t |-> "function"]

\* A candidate that fails validation: data that holds a function.
W == Obj([kind |-> Str("information"), type |-> Str("information"),
          code |-> Str("w"), data |-> FunctionValue])

CopyTraceArgs == {<<A>>, <<W>>}

\* structuredClone(v) throws a DataCloneError when v holds a function.
RECURSIVE Cloneable(_)
Cloneable(v) ==
    CASE v.t = "function" -> FALSE
      [] v.t = "object" -> \A k \in DOMAIN v.f : Cloneable(v.f[k])
      [] OTHER -> TRUE

DataCloneError(list) == \E k \in DOMAIN list : ~Cloneable(list[k])

\* The array structuredClone made of a list: every entry is a new object,
\* stored nowhere.
Cloned(list) == [k \in DOMAIN list |-> [message |-> list[k], storedAt |-> {}]]

\* m after the caller's assignment m.code = 'changed'.
Changed(m) == [m EXCEPT !.f = [code |-> Str("changed")] @@ @]

\* The entry j of the trace list of the Result i after the caller changed
\* the held object `entry`: addTraces pushed that object itself when it was
\* valid, and a substitute whose data.pureMessage is that object when not.
StoredAfter(entry, i, j, stored) ==
    IF [in |-> i, at |-> j, embedded |-> FALSE] \in entry.storedAt
    THEN Changed(entry.message)
    ELSE IF [in |-> i, at |-> j, embedded |-> TRUE] \in entry.storedAt
    THEN [stored EXCEPT !.f.data.f.pureMessage = Changed(entry.message)]
    ELSE stored

\* Bound of the model: the operations of a run with getters.
MaxCopySteps == 4

\* The getter `op` of r: the copy of the stored list, or the DataCloneError.
Got(op, r, stored, copy) ==
    /\ steps < MaxCopySteps
    /\ held' = IF DataCloneError(stored) THEN held
               ELSE Append(held, Cloned(copy))
    /\ last' = [op |-> op, recv |-> r, pre |-> heap,
                threw |-> DataCloneError(stored)]
    /\ steps' = steps + 1
    /\ UNCHANGED <<heap, passed, asyncVars>>

GetTraces ==
    \E r \in DOMAIN heap : Got("getTraces", r, heap[r].traces, getTraces(heap[r]))

GetErrors ==
    \E r \in DOMAIN heap :
        /\ isFailure(heap[r])
        /\ Got("getErrors", r, heap[r].errors, getErrors(heap[r]))

\* r.addTraces(items), among them a candidate that holds a function.
AddTracesWithFunction ==
    \E r \in DOMAIN heap, items \in CopyTraceArgs :
        Record("addTraces", r, this(addTraces(heap, r, items), r), items)

\* r.addTraces(t[k]) for an entry of a returned array t.
AddTracesOfReturned ==
    \E a \in DOMAIN held : \E k \in DOMAIN held[a] : \E r \in DOMAIN heap :
        /\ steps < MaxCopySteps
        /\ heap' = addTraces(heap, r, <<held[a][k].message>>)
        /\ held' = [held EXCEPT ![a][k].storedAt =
                        @ \cup {[in |-> r, at |-> Len(heap[r].traces) + 1,
                                 embedded |->
                                    ~messageSchema(held[a][k].message)]}]
        /\ last' = [op |-> "addTracesOfReturned", recv |-> r, pre |-> heap,
                    threw |-> FALSE]
        /\ steps' = steps + 1
        /\ UNCHANGED <<passed, asyncVars>>

\* The caller changes a returned array: t.push(A), t.pop(), t.reverse().
MutateArray ==
    \E a \in DOMAIN held : \E change \in {"push", "pop", "reverse"} :
        /\ steps < MaxCopySteps
        /\ change = "pop" => held[a] # <<>>
        /\ held' = [held EXCEPT ![a] =
                CASE change = "push" ->
                        Append(@, [message |-> A, storedAt |-> {}])
                  [] change = "pop" -> SubSeq(@, 1, Len(@) - 1)
                  [] change = "reverse" ->
                        [k \in DOMAIN @ |-> @[Len(@) + 1 - k]]]
        /\ last' = [op |-> "mutate", recv |-> 0, pre |-> heap,
                    threw |-> FALSE]
        /\ steps' = steps + 1
        /\ UNCHANGED <<heap, passed, asyncVars>>

\* The caller changes a message object of a returned array:
\* t[k].code = 'changed'.
MutateMessage ==
    \E a \in DOMAIN held : \E k \in DOMAIN held[a] :
        /\ steps < MaxCopySteps
        /\ heap' = [i \in DOMAIN heap |->
                [heap[i] EXCEPT !.traces =
                    [j \in DOMAIN @ |-> StoredAfter(held[a][k], i, j, @[j])]]]
        /\ held' = [held EXCEPT ![a][k].message = Changed(@)]
        /\ last' = [op |-> "mutate", recv |-> 0, pre |-> heap,
                    threw |-> FALSE]
        /\ steps' = steps + 1
        /\ UNCHANGED <<passed, asyncVars>>

NextCopies ==
    \/ NewSuccess
    \/ NewFailure
    \/ AddTracesWithFunction
    \/ AddErrors
    \/ GetTraces
    \/ GetErrors
    \/ AddTracesOfReturned
    \/ MutateArray
    \/ MutateMessage

SpecCopies == Init /\ [][NextCopies]_vars

\* The messages of a held array.
Messages(array) == [k \in DOMAIN array |-> array[k].message]

\* C17: getTraces() and getErrors() return the stored list, in its order, as
\* an array of new objects; and changing a returned array, or a message
\* object of it, changes the list getTraces() or getErrors() returns next on
\* no Result.
C17_GettersReturnCopies ==
    /\ last.op \in {"getTraces", "getErrors"}
        => /\ ~last.threw
           /\ held # <<>>
           /\ Messages(held[Len(held)])
                = (IF last.op = "getTraces" THEN heap[last.recv].traces
                   ELSE heap[last.recv].errors)
           /\ \A k \in DOMAIN held[Len(held)] :
                held[Len(held)][k].storedAt = {}
    /\ last.op = "mutate"
        => \A i \in DOMAIN heap :
                /\ getTraces(heap[i]) = getTraces(last.pre[i])
                /\ getErrors(heap[i]) = getErrors(last.pre[i])

\* The same while every stored list can be cloned and no object of a
\* returned array was handed to addTraces.
C17_ClonedAndKept ==
    (/\ \A i \in DOMAIN heap :
            ~DataCloneError(heap[i].traces \o heap[i].errors)
     /\ \A a \in DOMAIN held : \A k \in DOMAIN held[a] :
            held[a][k].storedAt = {})
    => C17_GettersReturnCopies

(***************************************************************************)
(* tap, tapSuccess, tapFailure, tapBoth (pure_result.ts).  A callback of   *)
(* tap returns nothing; it is described by what it does with the Result it *)
(* is handed: nothing, or addTraces.                                       *)
(***************************************************************************)
TapFns(name) ==
    {[name |-> name, does |-> "nothing", traces |-> <<>>],
     [name |-> name, does |-> "addTraces", traces |-> <<C>>],
     [name |-> name, does |-> "addTraces", traces |-> <<Y>>]}

\* f(this); return this.
tapped(h, r, f) ==
    [heap |-> IF f.does = "addTraces" THEN addTraces(h, r, f.traces) ELSE h,
     ret |-> r,
     calls |-> <<f.name>>,
     fout |-> NoResult]

tap(h, r, f) == tapped(h, r, f)

tapSuccess(h, r, onSuccess) ==
    IF isSuccess(h[r]) THEN tapped(h, r, onSuccess) ELSE this(h, r)

tapFailure(h, r, onFailure) ==
    IF isFailure(h[r]) THEN tapped(h, r, onFailure) ELSE this(h, r)

\* A faulty tapBoth: both callbacks fire.
tapBothCallingBoth(h, r, onSuccess, onFailure) ==
    [tapped(tapped(h, r, onSuccess).heap, r, onFailure)
        EXCEPT !.calls = <<onSuccess.name, onFailure.name>>]

tapBoth(h, r, onSuccess, onFailure) ==
    IF isSuccess(h[r])
    THEN tapped(h, r, onSuccess)
    ELSE tapped(h, r, onFailure)

Tap ==
    \E r \in DOMAIN heap, f \in TapFns("f") :
        Record("tap", r, tap(heap, r, f), <<f, f>>)

TapSuccess ==
    \E r \in DOMAIN heap, onSuccess \in TapFns("onSuccess") :
        Record("tapSuccess", r, tapSuccess(heap, r, onSuccess),
               <<onSuccess, onSuccess>>)

TapFailure ==
    \E r \in DOMAIN heap, onFailure \in TapFns("onFailure") :
        Record("tapFailure", r, tapFailure(heap, r, onFailure),
               <<onFailure, onFailure>>)

TapBoth ==
    \E r \in DOMAIN heap, onSuccess \in TapFns("onSuccess"),
       onFailure \in TapFns("onFailure") :
        Record("tapBoth", r, tapBoth(heap, r, onSuccess, onFailure),
               <<onSuccess, onFailure>>)

NextTap ==
    \/ NewSuccess
    \/ NewFailure
    \/ AddTraces
    \/ AddErrors
    \/ Tap
    \/ TapSuccess
    \/ TapFailure
    \/ TapBoth

SpecTap == Init /\ [][NextTap]_vars

\* The callbacks a tap operation has to call on a receiver of this variant:
\* last.arg holds the callback for a Success and the one for a Failure.
TapCalled ==
    CASE last.op = "tap" -> <<last.arg[1]>>
      [] last.op = "tapSuccess" ->
            IF isSuccess(last.pre) THEN <<last.arg[1]>> ELSE <<>>
      [] last.op = "tapFailure" ->
            IF isFailure(last.pre) THEN <<last.arg[2]>> ELSE <<>>
      [] last.op = "tapBoth" ->
            IF isSuccess(last.pre) THEN <<last.arg[1]>> ELSE <<last.arg[2]>>

\* C21: a tap operation calls the callback that matches the variant of the
\* receiver (tap: its callback), once, and no other; it returns the receiver,
\* whose variant, value and errors are what they were, and whose traces are
\* what they were followed by what the callback added with addTraces.
C21_TapKeepsTheReceiver ==
    last.op \in {"tap", "tapSuccess", "tapFailure", "tapBoth"}
    => /\ last.ret = last.recv
       /\ last.calls = [k \in DOMAIN TapCalled |-> TapCalled[k].name]
       /\ Returned.variant = last.pre.variant
       /\ Returned.value = last.pre.value
       /\ Returned.errors = last.pre.errors
       /\ Returned.traces
            = pushTraces(last.pre.traces,
                         IF TapCalled = <<>> THEN <<>>
                         ELSE TapCalled[1].traces)

C21_Witness ==
    /\ last.op = "tapBoth"
    /\ isSuccess(last.pre)
    /\ last.pre.traces = <<>>
    /\ last.arg[2].does = "addTraces"
    /\ last.calls = <<"onSuccess">>
    /\ Returned.value = last.pre.value
    /\ Returned.traces = <<C>>

(***************************************************************************)
(* convertZodParseResultToPureResult (the Zod helpers).  Its argument is   *)
(* what safeParse returned: the parsed data, or the issues of the error.   *)
(***************************************************************************)
\* The issues of a ZodError: custom ones (refine / superRefine) carry a
\* message and optional params, the others only count.
Issues ==
    {[code |-> "custom", message |-> "tooYoung", params |-> Undefined],
     [code |-> "custom", message |-> "mismatch",
      params |-> Obj([min |-> Num(1)])],
     [code |-> "custom", message |-> "expired",
      params |-> Obj([at |-> DateValue])],
     [code |-> "invalid_type", message |-> "Invalid input",
      params |-> Undefined],
     [code |-> "too_small", message |-> "Too small", params |-> Undefined]}

\* Bounds of the model: the issues of one ZodError, the conversions of a run.
MaxIssues == 3

MaxConversions == 1

ZodSafeParseResults ==
    {[success |-> TRUE, data |-> d, issues |-> <<>>] : d \in Values}
        \cup UNION {{[success |-> FALSE, data |-> 0, issues |-> issues] :
                        issues \in [1..n -> Issues]} : n \in 0..MaxIssues}

\* Number.prototype.toString of a count.
RECURSIVE toString(_)
toString(n) ==
    IF n < 10
    THEN <<"0", "1", "2", "3", "4", "5", "6", "7", "8", "9">>[n + 1]
    ELSE toString(n \div 10) \o toString(n % 10)

\* The loop over result.error.issues: the messages pushed for the custom
\* issues, and the count of the others.
RECURSIVE errorMessages(_)
errorMessages(issues) ==
    IF issues = <<>> THEN <<>>
    ELSE (IF Head(issues).code = "custom"
          THEN <<generateError([type |-> Str("processError"),
                                code |-> Str(Head(issues).message),
                                data |-> Head(issues).params])>>
          ELSE <<>>)
            \o errorMessages(Tail(issues))

zodGenericErrorCount(issues) ==
    Len(SelectSeq(issues, LAMBDA issue : issue.code # "custom"))

\* result.error.stack ?? ''
ZodErrorStack == Str("ZodError: ...")

\* A faulty conversion: one generic error for every issue that is not
\* custom.
convertZodParseResultCountingEach(result) ==
    IF result.success
    THEN Success(result.data, Undefined)
    ELSE Failure(
            errorMessages(result.issues)
                \o [k \in 1..zodGenericErrorCount(result.issues) |->
                        generateError(
                            [type |-> Str("processError"),
                             code |-> Str("zodParseFailed"),
                             data |-> Obj([count |-> Str("1"),
                                           zodError |-> ZodErrorStack])])])

convertZodParseResultToPureResult(result) ==
    IF result.success
    THEN Success(result.data, Undefined)
    ELSE Failure(
            errorMessages(result.issues)
                \o (IF zodGenericErrorCount(result.issues) > 0
                    THEN <<generateError(
                            [type |-> Str("processError"),
                             code |-> Str("zodParseFailed"),
                             data |-> Obj(
                                [count |-> Str(toString(
                                    zodGenericErrorCount(result.issues))),
                                 zodError |-> ZodErrorStack])])>>
                    ELSE <<>>))

ConvertZodParseResultToPureResult ==
    \E result \in ZodSafeParseResults :
        /\ steps < MaxConversions
        /\ Construct("convertZodParseResultToPureResult",
                     convertZodParseResultToPureResult(result), <<result>>,
                     0, 0)

NextZod == ConvertZodParseResultToPureResult

SpecZod == Init /\ [][NextZod]_vars

\* The custom issues of the ZodError that was converted, and the number of
\* its other issues.
CustomIssues == SelectSeq(last.arg[1].issues, LAMBDA i : i.code = "custom")

OtherIssues ==
    Cardinality({k \in DOMAIN last.arg[1].issues :
                    last.arg[1].issues[k].code # "custom"})

Combinators ==
    {"mapSuccess", "mapFailure", "mapBoth", "chain", "chainSuccess",
     "chainFailure", "chainBoth", "convertFailureToSuccess"}

\* C23: after a map*, a chain* or convertFailureToSuccess, addTraces on the
\* Result that was returned changes the list getTraces() returns on the
\* receiver for no items, and addErrors on a returned Failure changes the
\* list getErrors() returns on the receiver for no items.
C23_ReturnedSharesNoList ==
    last.op \in Combinators
    => /\ \A items \in TraceArgs :
            getTraces(addTraces(heap, last.ret, items)[last.recv])
                = getTraces(heap[last.recv])
       /\ isFailure(Returned)
            => \A items \in ErrorArgs :
                getErrors(addErrors(heap, last.ret, items)[last.recv])
                    = getErrors(heap[last.recv])

\* The same when the Result returned is not the receiver itself.
C23_UnlessReceiverReturned ==
    (last.op \in Combinators /\ last.ret # last.recv)
    => C23_ReturnedSharesNoList

(***************************************************************************)
(* Properties of the traces of fromResultArray.                            *)
(***************************************************************************)
\* C24: fromResultArray leaves the traces and the errors of every Result of
\* its array as they were.
C24_InputsNotModified ==
    last.op = "fromResultArray"
    => \A i \in DOMAIN last.pre :
            /\ getTraces(heap[i]) = getTraces(last.pre[i])
            /\ getErrors(heap[i]) = getErrors(last.pre[i])

\* The same for arrays without a Failure.
C24_NoFailure ==
    (last.op = "fromResultArray" /\ FailuresIn(last.pre, last.arg) = {})
    => C24_InputsNotModified

\* Whether every trace and every error the Results held before the call
\* passes validation.
AllStoredValid ==
    \A i \in DOMAIN last.pre :
        /\ \A k \in DOMAIN last.pre[i].traces :
                messageSchema(last.pre[i].traces[k])
        /\ \A k \in DOMAIN last.pre[i].errors :
                messageSchema(last.pre[i].errors[k])

\* C25: with firstFailureOnly, the traces of the Failure returned from the
\* place k of the array are the traces that Failure held, followed by the
\* trace lists of the entries 1..k of the array, one after the other.
C25_FirstFailureTraces ==
    (last.op = "fromResultArray" /\ last.firstFailureOnly
        /\ FailuresIn(last.pre, last.arg) # {})
    => Returned.traces
        = last.pre[last.arg[FirstFailureIn(last.pre, last.arg)]].traces
            \o TracesOfResults(last.pre,
                    SubSeq(last.arg, 1, FirstFailureIn(last.pre, last.arg)))

\* The same while every stored message passes validation.
C25_Valid == AllStoredValid => C25_FirstFailureTraces

\* C26: without firstFailureOnly, the Failure returned for an array that
\* holds a Failure has, among its traces, every trace of every Result of the
\* array.
C26_MergedFailureHasAllTraces ==
    (last.op = "fromResultArray" /\ ~last.firstFailureOnly
        /\ FailuresIn(last.pre, last.arg) # {})
    => \A k \in DOMAIN TracesOfResults(last.pre, last.arg) :
            \E j \in DOMAIN Returned.traces :
                Returned.traces[j] = TracesOfResults(last.pre, last.arg)[k]

\* The same for arrays that end with a Failure, while every stored message
\* passes validation.
C26_EndingWithFailure ==
    (/\ last.op = "fromResultArray"
     /\ last.arg # <<>>
     /\ isFailure(last.pre[last.arg[Len(last.arg)]])
     /\ AllStoredValid)
    => C26_MergedFailureHasAllTraces

\* The entries of the array that a call of fromResultArray scans.
Scanned ==
    IF last.firstFailureOnly /\ FailuresIn(last.pre, last.arg) # {}
    THEN SubSeq(last.arg, 1, FirstFailureIn(last.pre, last.arg))
    ELSE last.arg

\* C27: for an array of Results that are all different objects, the Result
\* fromResultArray returns has as many traces as the entries it scanned
\* have together.
C27_NoTraceTwice ==
    (/\ last.op = "fromResultArray"
     /\ \A i, j \in DOMAIN last.arg : last.arg[i] = last.arg[j] => i = j)
    => Len(Returned.traces) = Len(TracesOfResults(last.pre, Scanned))

\* The same for arrays without a Failure.
C27_NoFailure ==
    (last.op = "fromResultArray" /\ FailuresIn(last.pre, last.arg) = {})
    => C27_NoTraceTwice

(***************************************************************************)
(* Properties of the order of an asynchronous chain.                       *)
(***************************************************************************)
\* C28: in every resolution the steps of a chain run one after the other.
\* A suspended resolve() waits for the one above it, which is that of its
\* receiver unless it waits for the ResultAsync its callback returned; the
\* computation of a combinator goes on, and calls its callback, only with
\* what the resolve() of its receiver settled as; and a chain* whose
\* callback returned a ResultAsync settles only when that one has settled,
\* with its Result.
C28_StepsInSequence ==
    /\ \A p \in DOMAIN pending :
        /\ \A i \in 1..(Len(pending[p].stack) - 1) :
                pending[p].stack[i].adopting
                    \/ pending[p].stack[i + 1].a
                        = asyncs[pending[p].stack[i].a].up
        /\ (pending[p].stack # <<>> /\ pending[p].awaited.kind = "none")
            => asyncs[pending[p].stack[Len(pending[p].stack)].a].up = 0
    /\ (last.op \in Combinators /\ ~last.adopting)
        => /\ last.awaited.kind # "none"
           /\ last.calls # <<>>
                => /\ last.awaited.kind = "fulfilled"
                   /\ last.recv = last.awaited.id
                   /\ last.recv \in DOMAIN heap
    /\ (last.op \in Combinators /\ last.adopting)
        => /\ last.awaited.kind # "none"
           /\ last.awaited.kind = "fulfilled"
                => /\ last.settled = "fulfilled"
                   /\ last.ret = last.awaited.id

C28_Witness ==
    /\ last.op = "chainSuccess"
    /\ last.adopting
    /\ last.settled = "fulfilled"
    /\ last.awaited.kind = "fulfilled"
    /\ last.ret = last.awaited.id
    /\ last.ret # last.recv
    /\ last.calls = <<"next">>

\* Two resolutions of the same ResultAsync that have both given a Result.
BothResolved(p, q) ==
    /\ p # q
    /\ pending[p].target = pending[q].target
    /\ pending[p].stack = <<>> /\ pending[p].awaited.kind = "fulfilled"
    /\ pending[q].stack = <<>> /\ pending[q].awaited.kind = "fulfilled"

\* C29: addTraces on the Result one resolution of a ResultAsync gave changes
\* the traces of the Result another resolution of it gave for no items.
C29_ResolutionsShareNothing ==
    \A p, q \in DOMAIN pending :
        BothResolved(p, q)
        => \A items \in TraceArgs :
                getTraces(addTraces(heap, pending[p].awaited.id, items)[
                            pending[q].awaited.id])
                    = getTraces(heap[pending[q].awaited.id])

\* The same while no ResultAsync was built by liftResult.
C29_WithoutLiftResult ==
    (\A a \in DOMAIN asyncs : asyncs[a].op # "liftResult")
    => C29_ResolutionsShareNothing

(***************************************************************************)
(* Properties of every entry a Result stores.                              *)
(***************************************************************************)

\* The traces and the errors the Result r of the heap stores.
Stored(r) ==
    {heap[r].traces[k] : k \in DOMAIN heap[r].traces}
        \cup {heap[r].errors[k] : k \in DOMAIN heap[r].errors}

\* C30: every trace and every error any Result stores passes messageSchema.
C30_StoredEntriesAreValid ==
    \A r \in DOMAIN heap : \A entry \in Stored(r) : messageSchema(entry)

\* A stored entry that fails messageSchema is the substitute of a candidate
\* that is not JSON, which it embeds in data.pureMessage.
C30_UnlessSubstituteOfNonJson ==
    \A r \in DOMAIN heap : \A entry \in Stored(r) :
        \/ messageSchema(entry)
        \/ /\ Get(entry, "kind") = Str("error")
           /\ Get(entry, "type") = Str("pureTraceInternalError")
           /\ ~zJson(Get(Get(entry, "data"), "pureMessage"))

====
